---- MODULE Spec2Model ----
(***************************************************************************)
(* Model of the y_ex native layer (native/yex/src/doc.rs, awareness.rs):   *)
(* the Document's current-transaction slot, the update observers, the      *)
(* state-vector / update exchange between replicas, and the Awareness      *)
(* instances with their observers and subscriptions.                       *)
(*                                                                         *)
(* The CRDT store of the yrs library is modelled at the level of its       *)
(* contract: a store is a set of operations identified by <<client,clock>>,*)
(* an operation integrates once every earlier clock of its client is       *)
(* integrated, and operations that cannot integrate yet are kept pending.  *)
(***************************************************************************)
EXTENDS Integers, Sequences, FiniteSets, TLC

\* ---------------------------------------------------------------- bounds
\* local edits a document makes
MaxEdits == 2

\* changes a client's awareness clock counts
MaxClock == 3

\* subscriptions created on the awareness instances
MaxSubs == 2

\* update observers registered on a document at the same time
MaxObservers == 2

\* --------------------------------------------------------------- domains
Docs == {1, 2}

ClientId(d) == d

Clients == {ClientId(d) : d \in Docs}

OriginStrs == {"peer"}

\* the document whose transaction slot is exercised, and its remote peers
Subject == 1

RemoteClients == Clients \ {ClientId(Subject)}

\* Option<&str>: <<>> is None, <<s>> is Some(s)
OriginArgs == {<<>>} \cup {<<s>> : s \in OriginStrs}

Channels == {"update_v1", "update_v2"}

ChannelOrder == <<"update_v1", "update_v2">>

Versions == {1, 2}

VersionOf(ch) == IF ch = "update_v1" THEN 1 ELSE 2

VARIABLES blocks, pending, current_transaction, live, pc, txn_local,
          observers, mailbox, ret, received, author, published,
          aw_states, aw_meta, aw_observers, subs, aw_sent, aw_ret

\* blocks, pending        the store of each Doc: integrated and pending operations
\* current_transaction    DocInner.current_transaction
\* live                   number of TransactionMut values alive on each Doc
\* pc, txn_local          position inside doc_begin_transaction and its local txn
\* observers, mailbox     registered update observers and the messages sent to the pid
\* ret                    the last NIF call and what it returned
\* received               history: the updates each replica has applied
\* author                 history: the holder that made each local edit
\* published              history: the value last handed to set_local_state
\* aw_states, aw_meta     Awareness.states and Awareness.meta of each instance
\* aw_observers           callbacks registered with on_update / on_change
\* subs                   the SubscriptionResource values created so far
\* aw_sent                messages the observers sent during the last call
\* aw_ret                 the last Awareness NIF call and what it returned
vars == <<blocks, pending, current_transaction, live, pc, txn_local,
          observers, mailbox, ret, received, author, published,
          aw_states, aw_meta, aw_observers, subs, aw_sent, aw_ret>>

docvars == <<blocks, pending, current_transaction, live, pc, txn_local,
             observers, mailbox, ret>>

awvars == <<aw_states, aw_meta, aw_observers, subs, aw_sent, aw_ret>>

\* ---------------------------------------------------------- state vectors
EmptySV == [c \in Clients |-> 0]

\* a state vector that gives every client the size of the whole store
StateVector_Total(S) == [c \in Clients |-> Cardinality(S)]

\* txn.state_vector(): next expected clock of every client
StateVector(S) == [c \in Clients |-> Cardinality({op \in S : op[1] = c})]

SVGeq(a, b) == \A c \in Clients : a[c] >= b[c]

\* a diff that also leaves out the first operation the remote lacks
DiffOps_OffByOne(S, sv) == {op \in S : op[2] > sv[op[1]]}

\* operations of S not reflected in sv
DiffOps(S, sv) == {op \in S : op[2] >= sv[op[1]]}

\* --------------------------------------------------------------- codec
\* Encoded binaries.  kind/fmt say what was encoded and in which wire format.
UpdateBytes(ver, ops) == [kind |-> "update", fmt |-> ver, ops |-> ops, sv |-> EmptySV]

SVBytes(ver, sv) == [kind |-> "sv", fmt |-> ver, ops |-> {}, sv |-> sv]

Garbage == [kind |-> "garbage", fmt |-> 0, ops |-> {}, sv |-> EmptySV]

DecodeErr == [ok |-> FALSE, ops |-> {}, sv |-> EmptySV]

\* Update::decode_v1 / Update::decode_v2.
\* The v2 envelope starts with a zero feature flag followed by an empty
\* key-clock buffer, which the v1 decoder reads as "0 clients, 0 deletions":
\* v2 bytes decode under v1 as the empty update.  The v2 decoder fails on v1
\* bytes (truncated envelope).
DecodeUpdate(ver, b) ==
    IF b.kind = "update" /\ b.fmt = ver
    THEN [ok |-> TRUE, ops |-> b.ops, sv |-> EmptySV]
    ELSE IF ver = 1 /\ b.fmt = 2
         THEN [ok |-> TRUE, ops |-> {}, sv |-> EmptySV]
         ELSE DecodeErr

\* StateVector::decode_v1 / decode_v2, same envelope rule
DecodeSV(ver, b) ==
    IF b.kind = "sv" /\ b.fmt = ver
    THEN [ok |-> TRUE, ops |-> {}, sv |-> b.sv]
    ELSE IF ver = 1 /\ b.fmt = 2
         THEN [ok |-> TRUE, ops |-> {}, sv |-> EmptySV]
         ELSE DecodeErr

\* ------------------------------------------------------------- origins
\* Origin::from(&str) and Origin's to_string()
OriginFrom(s) == [bytes |-> s]

OriginToString(o) == o.bytes

\* Option<Origin> of a transaction -> Option<String> sent to the observer
OriginOf(t) == IF t.origin = <<>> THEN <<>> ELSE <<OriginToString(t.origin[1])>>

\* ------------------------------------------------------- transactions
NoTxn == [open |-> FALSE, origin |-> <<>>, before |-> EmptySV]

\* a transaction that is always created by try_transact_mut(), without origin
NewTxn_DropsOrigin(d, originArg) ==
    [open |-> TRUE, origin |-> <<>>, before |-> StateVector(blocks[d])]

\* a TransactionMut created now on doc d
NewTxn(d, originArg) ==
    [open |-> TRUE,
     origin |-> IF originArg = <<>> THEN <<>> ELSE <<OriginFrom(originArg[1])>>,
     before |-> StateVector(blocks[d])]

\* try_transact_mut that never refuses
TryTransactMut_Unchecked(d) == live[d] >= 0

\* Doc::try_transact_mut: Ok iff no transaction holds the store
TryTransactMut(d) == live[d] = 0

\* return values of a NIF call
RetOk == [status |-> "ok", bytes |-> <<>>]

RetError == [status |-> "error", bytes |-> <<>>]

RetPanic == [status |-> "panic", bytes |-> <<>>]

RetBytes(b) == [status |-> "ok", bytes |-> <<b>>]

Call(op, d, val) == [op |-> op, doc |-> d, val |-> val]

\* callbacks registered on the channels of doc d
NumObservers(d) == observers[d][ChannelOrder[1]] + observers[d][ChannelOrder[2]]

\* the channels of doc d that have a callback
Registered(d) == {ch \in Channels : observers[d][ch] > 0}

\* one event per operation of the transaction instead of one per transaction
CommitEvents_PerOp(d, t, S) ==
    LET n == Cardinality(DiffOps(S, t.before))
        nth(i) == CHOOSE op \in DiffOps(S, t.before) :
                      Cardinality({o \in DiffOps(S, t.before) :
                                      o[1] < op[1] \/ (o[1] = op[1] /\ o[2] < op[2])}) = i - 1
        ev(ch, i) == [tag |-> ch,
                      update |-> UpdateBytes(VersionOf(ch), {nth(i)}),
                      origin |-> OriginOf(t)]
        k1 == observers[d][ChannelOrder[1]]
        m == NumObservers(d)
    IN [j \in 1 .. n * m |->
           ev(IF ((j - 1) % m) + 1 <= k1 THEN ChannelOrder[1] ELSE ChannelOrder[2],
              ((j - 1) \div m) + 1)]

\* events the observers of doc d send when transaction t commits with the
\* store holding S: nothing if the transaction changed nothing, else every
\* registered update_v1 callback sends its message, then every update_v2 one
CommitEvents(d, t, S) ==
    IF StateVector(S) = t.before
    THEN <<>>
    ELSE LET ev(ch) == [tag |-> ch,
                        update |-> UpdateBytes(VersionOf(ch), DiffOps(S, t.before)),
                        origin |-> OriginOf(t)]
             evs(ch) == [i \in 1 .. observers[d][ch] |-> ev(ch)]
         IN evs(ChannelOrder[1]) \o evs(ChannelOrder[2])

\* the operations of known whose causal predecessors are all in known
Integrated(known) == {op \in known : \A k \in 0 .. op[2] - 1 : <<op[1], k>> \in known}

\* apply_update that never retries what it once put aside as pending
IntegrateUpdate_NoRetry(B, P, U) ==
    [blocks |-> Integrated(B \cup U),
     pending |-> P \cup ((B \cup U) \ Integrated(B \cup U))]

\* txn.apply_update(update) on a store with blocks B and pending P: what can
\* integrate does, pending operations are retried, the rest stays pending
IntegrateUpdate(B, P, U) ==
    [blocks |-> Integrated(B \cup P \cup U),
     pending |-> (B \cup P \cup U) \ Integrated(B \cup P \cup U)]

\* what encode_state_vector_v1/v2 returns for a store with blocks B
StateVectorRet(B, ver) == RetBytes(SVBytes(ver, StateVector(B)))

\* what encode_state_as_update_v1/v2 returns for a store with blocks B;
\* state_vector is <<>> (None) or <<bytes>>
StateAsUpdateRet(B, ver, state_vector) ==
    LET dec == IF state_vector = <<>>
               THEN [ok |-> TRUE, ops |-> {}, sv |-> EmptySV]
               ELSE DecodeSV(ver, state_vector[1])
    IN IF dec.ok THEN RetBytes(UpdateBytes(ver, DiffOps(B, dec.sv))) ELSE RetError

Init ==
    /\ blocks = [d \in Docs |-> {}]
    /\ pending = [d \in Docs |-> {}]
    /\ current_transaction = [d \in Docs |-> NoTxn]
    /\ live = [d \in Docs |-> 0]
    /\ pc = [d \in Docs |-> "idle"]
    /\ txn_local = [d \in Docs |-> NoTxn]
    /\ observers = [d \in Docs |-> [ch \in Channels |-> 0]]
    /\ mailbox = [d \in Docs |-> <<>>]
    /\ ret = Call("doc_new", 1, RetOk)
    /\ received = [d \in Docs |-> {}]
    /\ author = <<>>
    /\ published = <<>>
    /\ aw_states = [a \in Docs |-> <<>>]
    /\ aw_meta = [a \in Docs |-> <<>>]
    /\ aw_observers = [a \in Docs |-> [ch \in {"awareness_update", "awareness_change"} |-> {}]]
    /\ subs = [a \in Docs |-> [ch \in {"awareness_update", "awareness_change"} |-> <<>>]]
    /\ aw_sent = [a \in Docs |-> [ch \in {"awareness_update", "awareness_change"} |-> <<>>]]
    /\ aw_ret = [op |-> "awareness_new", aw |-> 1, val |-> RetOk]

\* updates a peer can send: every clock range below n of every client in C, in
\* either wire format, and bytes that are no encoding at all
RangeOps(c, lo, hi) == {<<c, k>> : k \in lo .. hi - 1}

PoolOps(C, n) == {RangeOps(c, lo, hi) : c \in C, lo \in 0 .. n - 1, hi \in 1 .. n} \ {{}}

Pool(C, n) == {UpdateBytes(ver, o) : ver \in Versions, o \in PoolOps(C, n)} \cup {Garbage}

\* the binary the previous call returned, if any
Returned == {ret.val.bytes[i] : i \in 1 .. Len(ret.val.bytes)}

\* update binaries a caller holds: the update the observer of d received
\* last and the update the previous call returned
HeldBytes(d) ==
    {mailbox[d][i].update : i \in {j \in 1 .. Len(mailbox[d]) : j = Len(mailbox[d])}}
      \cup {x \in Returned : x.kind = "update"}

\* optional state-vector argument: None, the state vector the previous call
\* returned, or bytes that are no encoding
SVArgs == {<<>>} \cup {<<x>> : x \in {y \in Returned : y.kind = "sv"} \cup {Garbage}}

\* ------------------------------------------------------------- actions
\* mutably whose implicit transaction is never committed to the observers
Mutably_NoDispatch(d, nb, np, op) ==
    IF current_transaction[d].open \/ TryTransactMut(d)
    THEN /\ blocks' = [blocks EXCEPT ![d] = nb]
         /\ pending' = [pending EXCEPT ![d] = np]
         /\ ret' = Call(op, d, RetOk)
         /\ UNCHANGED <<current_transaction, live, pc, txn_local, observers, mailbox>>
    ELSE /\ ret' = Call(op, d, RetPanic)
         /\ UNCHANGED <<blocks, pending, current_transaction, live, pc,
                        txn_local, observers, mailbox>>

\* mutably that dispatches each mutation at once, also inside an open transaction
Mutably_EagerDispatch(d, nb, np, op) ==
    IF current_transaction[d].open \/ TryTransactMut(d)
    THEN /\ blocks' = [blocks EXCEPT ![d] = nb]
         /\ pending' = [pending EXCEPT ![d] = np]
         /\ mailbox' = [mailbox EXCEPT ![d] = @ \o CommitEvents(d, NewTxn(d, <<>>), nb)]
         /\ ret' = Call(op, d, RetOk)
         /\ UNCHANGED <<current_transaction, live, pc, txn_local, observers>>
    ELSE /\ ret' = Call(op, d, RetPanic)
         /\ UNCHANGED <<blocks, pending, current_transaction, live, pc,
                        txn_local, observers, mailbox>>

\* DocInner::mutably(f), f leaving the store as nb/np
Mutably(d, nb, np, op) ==
    IF current_transaction[d].open
    THEN /\ blocks' = [blocks EXCEPT ![d] = nb]
         /\ pending' = [pending EXCEPT ![d] = np]
         /\ ret' = Call(op, d, RetOk)
         /\ UNCHANGED <<current_transaction, live, pc, txn_local, observers, mailbox>>
    ELSE IF TryTransactMut(d)
         THEN /\ blocks' = [blocks EXCEPT ![d] = nb]
              /\ pending' = [pending EXCEPT ![d] = np]
              /\ mailbox' = [mailbox EXCEPT ![d] = @ \o CommitEvents(d, NewTxn(d, <<>>), nb)]
              /\ ret' = Call(op, d, RetOk)
              /\ UNCHANGED <<current_transaction, live, pc, txn_local, observers>>
         ELSE /\ ret' = Call(op, d, RetPanic)
              /\ UNCHANGED <<blocks, pending, current_transaction, live, pc,
                             txn_local, observers, mailbox>>

\* readonly that, finding a transaction in the slot, takes it out and drops it
Readonly_Commits(d, op, val) ==
    /\ ret' = Call(op, d, val)
    /\ mailbox' = [mailbox EXCEPT ![d] =
                      IF current_transaction[d].open
                      THEN @ \o CommitEvents(d, current_transaction[d], blocks[d]) ELSE @]
    /\ live' = [live EXCEPT ![d] = IF current_transaction[d].open THEN @ - 1 ELSE @]
    /\ current_transaction' = [current_transaction EXCEPT ![d] = NoTxn]
    /\ UNCHANGED <<blocks, pending, pc, txn_local, observers>>

\* DocInner::readonly(f), f returning val
Readonly(d, op, val) ==
    /\ ret' = IF current_transaction[d].open \/ TryTransactMut(d)
              THEN Call(op, d, val)
              ELSE Call(op, d, RetPanic)
    /\ UNCHANGED <<blocks, pending, current_transaction, live, pc, txn_local,
                   observers, mailbox>>

\* begin_transaction that, finding a transaction open, retags it and returns
doc_begin_transaction_Retag(d, origin) ==
    /\ pc[d] = "idle"
    /\ IF TryTransactMut(d)
       THEN /\ live' = [live EXCEPT ![d] = @ + 1]
            /\ txn_local' = [txn_local EXCEPT ![d] = NewTxn(d, origin)]
            /\ pc' = [pc EXCEPT ![d] = "begin_store"]
            /\ ret' = Call("begin_transaction", d, RetOk)
            /\ UNCHANGED <<blocks, pending, current_transaction, observers, mailbox>>
       ELSE /\ current_transaction' =
                   [current_transaction EXCEPT ![d] = NewTxn(d, origin)]
            /\ ret' = Call("begin_transaction", d, RetOk)
            /\ UNCHANGED <<blocks, pending, live, pc, txn_local, observers, mailbox>>

\* doc_begin_transaction, up to the unwrap of try_transact_mut[_with]
doc_begin_transaction(d, origin) ==
    /\ pc[d] = "idle"
    /\ IF TryTransactMut(d)
       THEN /\ live' = [live EXCEPT ![d] = @ + 1]
            /\ txn_local' = [txn_local EXCEPT ![d] = NewTxn(d, origin)]
            /\ pc' = [pc EXCEPT ![d] = "begin_store"]
            /\ ret' = Call("begin_transaction", d, RetOk)
            /\ UNCHANGED <<blocks, pending, current_transaction, observers, mailbox>>
       ELSE /\ ret' = Call("begin_transaction", d, RetPanic)
            /\ UNCHANGED <<blocks, pending, current_transaction, live, pc,
                           txn_local, observers, mailbox>>

\* doc_begin_transaction, the store into the slot: the value that was in the
\* slot is dropped, and dropping a transaction commits it
doc_begin_store(d) ==
    /\ pc[d] = "begin_store"
    /\ LET old == current_transaction[d]
       IN /\ mailbox' = [mailbox EXCEPT ![d] =
                            IF old.open THEN @ \o CommitEvents(d, old, blocks[d]) ELSE @]
          /\ live' = [live EXCEPT ![d] = IF old.open THEN @ - 1 ELSE @]
    /\ current_transaction' = [current_transaction EXCEPT ![d] = txn_local[d]]
    /\ txn_local' = [txn_local EXCEPT ![d] = NoTxn]
    /\ pc' = [pc EXCEPT ![d] = "idle"]
    /\ UNCHANGED <<blocks, pending, observers, ret>>

\* commit_transaction that empties the slot without dropping the transaction
\* that was in it: the transaction keeps the store
doc_commit_transaction_Forgets(d) ==
    /\ pc[d] = "idle"
    /\ current_transaction' = [current_transaction EXCEPT ![d] = NoTxn]
    /\ ret' = Call("commit_transaction", d, RetOk)
    /\ UNCHANGED <<blocks, pending, live, pc, txn_local, observers, mailbox>>

\* commit_transaction that sends the events but leaves the transaction in the slot
doc_commit_transaction_KeepsSlot(d) ==
    /\ pc[d] = "idle"
    /\ LET old == current_transaction[d]
       IN mailbox' = [mailbox EXCEPT ![d] =
                         IF old.open THEN @ \o CommitEvents(d, old, blocks[d]) ELSE @]
    /\ ret' = Call("commit_transaction", d, RetOk)
    /\ UNCHANGED <<blocks, pending, current_transaction, live, pc, txn_local, observers>>

\* doc_commit_transaction / NifDoc::commit_transaction
doc_commit_transaction(d) ==
    /\ pc[d] = "idle"
    /\ LET old == current_transaction[d]
       IN /\ mailbox' = [mailbox EXCEPT ![d] =
                            IF old.open THEN @ \o CommitEvents(d, old, blocks[d]) ELSE @]
          /\ live' = [live EXCEPT ![d] = IF old.open THEN @ - 1 ELSE @]
    /\ current_transaction' = [current_transaction EXCEPT ![d] = NoTxn]
    /\ ret' = Call("commit_transaction", d, RetOk)
    /\ UNCHANGED <<blocks, pending, pc, txn_local, observers>>

\* a local edit of a shared type: mutably(|txn| insert(txn, ..)), one new
\* operation of the document's own client
local_edit(d) ==
    /\ pc[d] = "idle"
    /\ StateVector(blocks[d])[ClientId(d)] < MaxEdits
    /\ LET op == <<ClientId(d), StateVector(blocks[d])[ClientId(d)]>>
       IN Mutably(d, blocks[d] \cup {op}, pending[d] \ {op}, "edit")

\* apply_update that always runs in a transaction of its own, committed
\* before it returns
apply_update_OwnTransaction(d, ver, b) ==
    /\ pc[d] = "idle"
    /\ LET dec == DecodeUpdate(ver, b)
           store == IntegrateUpdate(blocks[d], pending[d], dec.ops)
       IN IF ~dec.ok
          THEN /\ ret' = Call("apply_update", d, RetError)
               /\ UNCHANGED <<blocks, pending, current_transaction, live, pc,
                              txn_local, observers, mailbox>>
          ELSE Mutably_EagerDispatch(d, store.blocks, store.pending, "apply_update")

\* apply_update_v1 / apply_update_v2
apply_update(d, ver, b) ==
    /\ pc[d] = "idle"
    /\ LET dec == DecodeUpdate(ver, b)
           store == IntegrateUpdate(blocks[d], pending[d], dec.ops)
       IN IF ~dec.ok
          THEN /\ ret' = Call("apply_update", d, RetError)
               /\ UNCHANGED <<blocks, pending, current_transaction, live, pc,
                              txn_local, observers, mailbox>>
          ELSE Mutably(d, store.blocks, store.pending, "apply_update")

\* encode_state_vector_v1 / encode_state_vector_v2
encode_state_vector(d, ver) ==
    /\ pc[d] = "idle"
    /\ Readonly(d, "encode_state_vector", StateVectorRet(blocks[d], ver))

\* encode_state_as_update_v1 / encode_state_as_update_v2
encode_state_as_update(d, ver, state_vector) ==
    /\ pc[d] = "idle"
    /\ IF StateAsUpdateRet(blocks[d], ver, state_vector) = RetError
       THEN /\ ret' = Call("encode_state_as_update", d, RetError)
            /\ UNCHANGED <<blocks, pending, current_transaction, live, pc,
                           txn_local, observers, mailbox>>
       ELSE Readonly(d, "encode_state_as_update",
                     StateAsUpdateRet(blocks[d], ver, state_vector))

\* doc_monitor_update_v1 / doc_monitor_update_v2: Doc::observe_update_v1/v2
\* needs the store, so it fails while a transaction holds it; then nothing is
\* registered and the call returns the error.  Otherwise one more callback is
\* registered on the channel, whatever is registered already, and the call
\* returns the resource that owns its Subscription.
doc_monitor_update(d, ch) ==
    /\ pc[d] = "idle"
    /\ IF TryTransactMut(d)
       THEN /\ NumObservers(d) < MaxObservers
            /\ observers' = [observers EXCEPT ![d][ch] = @ + 1]
            /\ ret' = Call("monitor_update", d, RetOk)
       ELSE /\ observers' = observers
            /\ ret' = Call("monitor_update", d, RetError)
    /\ UNCHANGED <<blocks, pending, current_transaction, live, pc, txn_local, mailbox>>

\* the resource returned by doc_monitor_update_v1/v2 is destroyed: it owns the
\* Subscription, whose Drop unregisters the callback.  Nothing else changes,
\* and no call returns.
subscription_release(d, ch) ==
    /\ observers[d][ch] > 0
    /\ observers' = [observers EXCEPT ![d][ch] = @ - 1]
    /\ UNCHANGED <<blocks, pending, current_transaction, live, pc, txn_local, mailbox, ret>>

\* ------------------------------------------------------------ awareness
\* Awareness::new(doc): instance a wraps Doc a and answers to its client id
Aws == Docs

\* a client that is neither instance, known only from the updates it sent
Outsider == 3

AwClients == Clients \cup {Outsider}

\* yrs::Any as the NIF holds it inside NifAny (json.0): Null, Undefined,
\* Number(f64), BigInt(i64), or a Map with the one key "cursor" over one of
\* those.  n is the numeric value, inner the variant of the value under the key.
Scalar(kind, n) == [kind |-> kind, n |-> n, inner |-> "none"]

MapOf(x) == [kind |-> "map", n |-> x.n, inner |-> x.kind]

Inner(v) == Scalar(v.inner, v.n)

AnyNull == Scalar("null", 0)

AnyUndefined == Scalar("undefined", 0)

Number(n) == Scalar("number", n)

BigInt(n) == Scalar("bigint", n)

\* the numbers of the states that are published
Cursors == {5, 9}

AnyScalars == {AnyNull, AnyUndefined} \cup {Number(n) : n \in Cursors} \cup {BigInt(n) : n \in Cursors}

\* every value a caller can hand to set_local_state
AllAnyValues == AnyScalars \cup {MapOf(x) : x \in AnyScalars}

\* the values the instances of SpecAw and SpecSub publish
AnyValues == {MapOf(Number(5)), MapOf(Number(9)), AnyNull}

\* JSON text, as the sequence of its tokens
DigitText(n) == <<"0", "1", "2", "3", "4", "5", "6", "7", "8", "9">>[n + 1]

NULL_STR == <<"null">>

\* impl Serialize for Any, written by serde_json: Null and Undefined are
\* serialize_none, Number is serialize_f64 (an integral f64 is written with
\* ".0"), BigInt is serialize_i64
ScalarJson(x) ==
    IF x.kind \in {"null", "undefined"} THEN NULL_STR
    ELSE IF x.kind = "number" THEN <<DigitText(x.n), ".", "0">>
    ELSE <<DigitText(x.n)>>

\* serde_json::to_string(&state)
ToJson(v) ==
    IF v.kind = "map"
    THEN <<"{", "\"cursor\"", ":">> \o ScalarJson(Inner(v)) \o <<"}">>
    ELSE ScalarJson(v)

\* the digit a token spells: <<n>>, or <<>> if it spells none
DigitOf(tok) ==
    IF \E n \in 0 .. 9 : DigitText(n) = tok
    THEN <<CHOOSE n \in 0 .. 9 : DigitText(n) = tok>>
    ELSE <<>>

\* impl Deserialize for Any on a scalar: null is visit_unit, a literal with a
\* fraction is visit_f64, one without is visit_u64, which gives a Number for
\* every integer a f64 holds exactly (all integers modelled here)
ParseScalar(s) ==
    IF s = NULL_STR THEN <<AnyNull>>
    ELSE IF Len(s) = 1 /\ DigitOf(s[1]) # <<>> THEN <<Number(DigitOf(s[1])[1])>>
    ELSE IF Len(s) = 3 /\ DigitOf(s[1]) # <<>> /\ s[2] = "." /\ s[3] = "0"
         THEN <<Number(DigitOf(s[1])[1])>>
    ELSE <<>>

\* serde_json::from_str::<yrs::Any>(state): <<v>> is Ok(v), <<>> is Err
FromJson(s) ==
    IF Len(s) >= 5 /\ s[1] = "{" /\ s[2] = "\"cursor\"" /\ s[3] = ":" /\ s[Len(s)] = "}"
    THEN LET x == ParseScalar(SubSeq(s, 4, Len(s) - 1))
         IN IF x = <<>> THEN <<>> ELSE <<MapOf(x[1])>>
    ELSE ParseScalar(s)

AwChannels == {"awareness_update", "awareness_change"}

\* HashMap insert / remove
Put(f, k, v) == [x \in DOMAIN f \cup {k} |-> IF x = k THEN v ELSE f[x]]

Del(f, k) == [x \in DOMAIN f \ {k} |-> f[x]]

EmptyMap == [x \in {} |-> 0]

\* AwarenessUpdateSummary
Summary(added, updated, removed) == [added |-> added, updated |-> updated, removed |-> removed]

NoSummary == Summary({}, {}, {})

\* what one Awareness operation leaves: the maps and the events it triggers,
\* each event a pair of summaries <<for on_update, for on_change>> and an origin
AwResult(S, M, events) == [states |-> S, meta |-> M, events |-> events]

AwEvent(upd, chg, origin) == [update |-> upd, change |-> chg, origin |-> origin]

\* Awareness::update_meta: the clock of a client starts at 1 and counts its changes
UpdateMeta(M, c) == Put(M, c, IF c \in DOMAIN M THEN M[c] + 1 ELSE 1)

\* a set_local_state that does not count the change in the client's clock
SetLocalState_NoClock(S, M, own, v) ==
    LET json == ToJson(v)
        upd == IF own \in DOMAIN S THEN Summary({}, {own}, {}) ELSE Summary({own}, {}, {})
    IN AwResult(Put(S, own, json), Put(M, own, IF own \in DOMAIN M THEN M[own] ELSE 1),
                <<AwEvent(upd, upd, <<>>)>>)

\* Awareness::set_local_state(state) of the instance whose client id is own
SetLocalState(S, M, own, v) ==
    LET json == ToJson(v)
        upd == IF own \in DOMAIN S THEN Summary({}, {own}, {}) ELSE Summary({own}, {}, {})
        chg == IF own \notin DOMAIN S THEN Summary({own}, {}, {})
               ELSE IF S[own] # json THEN Summary({}, {own}, {}) ELSE NoSummary
    IN AwResult(Put(S, own, json), UpdateMeta(M, own), <<AwEvent(upd, chg, <<>>)>>)

\* Awareness::remove_state(client_id)
RemoveState(S, M, c) ==
    AwResult(Del(S, c), UpdateMeta(M, c),
             IF c \in DOMAIN S
             THEN <<AwEvent(Summary({}, {}, {c}), Summary({}, {}, {c}), <<>>)>>
             ELSE <<>>)

\* for client_id in clients { awareness.remove_state(client_id) }
RECURSIVE RemoveStates(_, _, _)
RemoveStates(S, M, clients) ==
    IF clients = <<>>
    THEN AwResult(S, M, <<>>)
    ELSE LET first == RemoveState(S, M, Head(clients))
             rest == RemoveStates(first.states, first.meta, Tail(clients))
         IN AwResult(rest.states, rest.meta, first.events \o rest.events)

\* a clean_local_state that deletes the state without telling the observers
CleanLocalState_Silent(S, M, own) == AwResult(Del(S, own), UpdateMeta(M, own), <<>>)

\* Awareness::clean_local_state
CleanLocalState(S, M, own) == RemoveState(S, M, own)

\* awareness_get_states: the states that parse as JSON
GetStates(S) ==
    [c \in {x \in DOMAIN S : FromJson(S[x]) # <<>>} |-> FromJson(S[c])[1]]

\* awareness_get_local_state
GetLocalState(S, own) == IF own \in DOMAIN S THEN FromJson(S[own]) ELSE <<>>

\* encoded AwarenessUpdate: per client its clock and its JSON text
AwBytes(entries) == [kind |-> "awareness", fmt |-> 1, entries |-> entries]

AwGarbage == [kind |-> "garbage", fmt |-> 0, entries |-> EmptyMap]

\* AwarenessUpdate::decode_v1
DecodeAwareness(b) ==
    IF b.kind = "awareness" /\ b.fmt = 1
    THEN [ok |-> TRUE, entries |-> b.entries]
    ELSE [ok |-> FALSE, entries |-> EmptyMap]

\* Awareness::update_with_clients: a client without meta is ClientNotFound, a
\* client without state is encoded as null
UpdateWithClients(S, M, clients) ==
    IF clients \subseteq DOMAIN M
    THEN RetBytes(AwBytes([c \in clients |->
                              [clock |-> M[c],
                               json |-> IF c \in DOMAIN S THEN S[c] ELSE NULL_STR]]))
    ELSE RetError

\* awareness_encode_update_v1: clients is <<>> (None: Awareness::update, every
\* client that has a state) or <<set of ids>>
EncodeUpdate(S, M, clients) ==
    IF clients = <<>> THEN UpdateWithClients(S, M, DOMAIN S)
    ELSE UpdateWithClients(S, M, clients[1])

\* Awareness::apply_update / apply_update_with on the instance whose client id
\* is own.  An entry is taken when its client is unknown, when its clock is
\* newer, or when it removes, at the same clock, a state that is still there.
AwApplyUpdate(S, M, own, entries, origin) ==
    LET E == DOMAIN entries
        isNull(c) == entries[c].json = NULL_STR
        known(c) == c \in DOMAIN M
        isNew(c) == known(c) /\ M[c] < entries[c].clock
        isRemoved(c) == known(c) /\ M[c] = entries[c].clock /\ isNull(c) /\ c \in DOMAIN S
        taken(c) == isNew(c) \/ isRemoved(c)
        \* never let a remote client remove the local state
        kept(c) == taken(c) /\ isNull(c) /\ c = own /\ c \in DOMAIN S
        added == {c \in E : ~known(c)}
        updated == {c \in E : taken(c) /\ ~isNull(c)}
        removed == {c \in E : taken(c) /\ isNull(c) /\ ~kept(c)}
        changed == {c \in updated : c \notin DOMAIN S \/ S[c] # entries[c].json}
        upd == Summary(added, updated, removed)
        chg == Summary(added, changed, removed)
    IN AwResult([c \in (DOMAIN S \ removed) \cup added \cup updated |->
                    IF c \in added \cup updated THEN entries[c].json ELSE S[c]],
                [c \in DOMAIN M \cup E |->
                    IF c \in E /\ (~known(c) \/ taken(c))
                    THEN IF kept(c) THEN entries[c].clock + 1 ELSE entries[c].clock
                    ELSE M[c]],
                IF upd = NoSummary THEN <<>> ELSE <<AwEvent(upd, chg, origin)>>)

\* Option<Origin> of a call -> Option<String> sent to the observer
AwOrigin(origin) == IF origin = <<>> THEN <<>> ELSE <<OriginToString(OriginFrom(origin[1]))>>

\* the messages the callback of a subscription on channel ch sends for events
MsgsFor(ch, events) ==
    LET pick(e) == IF ch = "awareness_update" THEN e.update ELSE e.change
        fired == SelectSeq(events, LAMBDA e : pick(e) # NoSummary)
    IN [k \in 1 .. Len(fired) |->
           [tag |-> ch, summary |-> pick(fired[k]), origin |-> fired[k].origin]]

\* nothing sent to any subscription
NothingSent == [a \in Aws |-> [ch \in AwChannels |-> [i \in 1 .. Len(subs[a][ch]) |-> <<>>]]]

AwCall(op, a, val) == [op |-> op, aw |-> a, val |-> val]

\* Observer::trigger: every callback registered on a channel of instance a
\* sends one message per event of that channel
Trigger(a, events) ==
    [x \in Aws |-> [ch \in AwChannels |-> [i \in 1 .. Len(subs[x][ch]) |->
        IF x = a /\ i \in aw_observers[a][ch] THEN MsgsFor(ch, events) ELSE <<>>]]]

\* an operation on instance a that leaves res, returns val
AwFinish(a, res, op, val) ==
    /\ aw_states' = [aw_states EXCEPT ![a] = res.states]
    /\ aw_meta' = [aw_meta EXCEPT ![a] = res.meta]
    /\ aw_sent' = Trigger(a, res.events)
    /\ aw_ret' = AwCall(op, a, val)
    /\ UNCHANGED <<aw_observers, subs>>

\* the clock of client c on instance a may still grow
ClockBelow(a, c, n) == IF c \in DOMAIN aw_meta[a] THEN aw_meta[a][c] < n ELSE TRUE

\* awareness_set_local_state
awareness_set_local_state(a, v) ==
    /\ ClockBelow(a, ClientId(a), MaxClock)
    /\ AwFinish(a, SetLocalState(aw_states[a], aw_meta[a], ClientId(a), v),
                "set_local_state", RetOk)

\* awareness_clean_local_state
awareness_clean_local_state(a) ==
    /\ ClockBelow(a, ClientId(a), MaxClock)
    /\ AwFinish(a, CleanLocalState(aw_states[a], aw_meta[a], ClientId(a)),
                "clean_local_state", RetOk)

\* awareness_remove_states
awareness_remove_states(a, clients) ==
    /\ \A i \in 1 .. Len(clients) : ClockBelow(a, clients[i], MaxClock)
    /\ AwFinish(a, RemoveStates(aw_states[a], aw_meta[a], clients),
                "remove_states", RetOk)

\* awareness_encode_update_v1
awareness_encode_update_v1(a, clients) ==
    /\ aw_ret' = AwCall("encode_update", a, EncodeUpdate(aw_states[a], aw_meta[a], clients))
    /\ aw_sent' = NothingSent
    /\ UNCHANGED <<aw_states, aw_meta, aw_observers, subs>>

\* awareness_apply_update_v1
awareness_apply_update_v1(a, b, origin) ==
    LET dec == DecodeAwareness(b)
    IN IF ~dec.ok
       THEN /\ aw_ret' = AwCall("apply_update", a, RetError)
            /\ aw_sent' = NothingSent
            /\ UNCHANGED <<aw_states, aw_meta, aw_observers, subs>>
       ELSE AwFinish(a, AwApplyUpdate(aw_states[a], aw_meta[a], ClientId(a),
                                      dec.entries, AwOrigin(origin)),
                     "apply_update", RetOk)

\* awareness_get_states: what the caller is given, states that do not parse
\* left out
awareness_get_states(a) ==
    /\ aw_ret' = AwCall("get_states", a,
                        [status |-> "ok", bytes |-> <<>>, states |-> GetStates(aw_states[a])])
    /\ aw_sent' = NothingSent
    /\ UNCHANGED <<aw_states, aw_meta, aw_observers, subs>>

\* subscriptions created so far
NumSubs ==
    LET n(a) == Len(subs[a]["awareness_update"]) + Len(subs[a]["awareness_change"])
    IN n(1) + n(2)

\* awareness_monitor_update / awareness_monitor_change: registers the callback
\* with on_update / on_change and returns a resource that owns the Subscription
awareness_monitor(a, ch) ==
    /\ NumSubs < MaxSubs
    /\ subs' = [subs EXCEPT ![a][ch] = Append(@, [slot |-> TRUE, handle |-> "held"])]
    /\ aw_observers' = [aw_observers EXCEPT ![a][ch] = @ \cup {Len(subs[a][ch]) + 1}]
    /\ aw_sent' = [NothingSent EXCEPT ![a][ch] = Append(@, <<>>)]
    /\ aw_ret' = AwCall("monitor", a, RetOk)
    /\ UNCHANGED <<aw_states, aw_meta>>

\* dropping the Subscription held in resource i of channel ch of instance a
\* unregisters its callback
Unregister(a, ch, i) == [aw_observers EXCEPT ![a][ch] = @ \ {i}]

\* cancelling a subscription: the Subscription is taken out of the resource
\* and dropped; a resource that holds none is left alone
sub_unsubscribe(a, ch, i) ==
    /\ subs[a][ch][i].handle = "held"
    /\ subs' = [subs EXCEPT ![a][ch][i].slot = FALSE]
    /\ aw_observers' = IF subs[a][ch][i].slot THEN Unregister(a, ch, i) ELSE aw_observers
    /\ aw_sent' = NothingSent
    /\ aw_ret' = AwCall("unsubscribe", a, RetOk)
    /\ UNCHANGED <<aw_states, aw_meta>>

\* the caller lets go of the handle and the resource is destroyed: the
\* resource owns the Subscription (RefCell<Option<Subscription>>), so a
\* Subscription still in it is dropped, which unregisters its callback.  slot
\* keeps what the resource held when it was destroyed.
handle_release(a, ch, i) ==
    /\ subs[a][ch][i].handle = "held"
    /\ subs' = [subs EXCEPT ![a][ch][i].handle = "released"]
    /\ aw_observers' = IF subs[a][ch][i].slot THEN Unregister(a, ch, i) ELSE aw_observers
    /\ aw_sent' = NothingSent
    /\ UNCHANGED <<aw_states, aw_meta, aw_ret>>

\* ------------------------------------------------------- specifications
\* Spec: the transaction slot of one Document.  Its peer's first update
\* arrives in either wire format, next to bytes that are no encoding.
RemotePool == Pool(RemoteClients, 1)

BeginTransaction ==
    /\ \E o \in OriginArgs : doc_begin_transaction(Subject, o)
    /\ UNCHANGED <<received, author, published, awvars>>

BeginStore == doc_begin_store(Subject) /\ UNCHANGED <<received, author, published, awvars>>

CommitTransaction == doc_commit_transaction(Subject) /\ UNCHANGED <<received, author, published, awvars>>

LocalEdit == local_edit(Subject) /\ UNCHANGED <<received, author, published, awvars>>

ApplyUpdate ==
    /\ \E ver \in Versions, b \in RemotePool \cup HeldBytes(Subject) :
          apply_update(Subject, ver, b)
    /\ UNCHANGED <<received, author, published, awvars>>

EncodeStateVector ==
    /\ \E ver \in Versions : encode_state_vector(Subject, ver)
    /\ UNCHANGED <<received, author, published, awvars>>

EncodeStateAsUpdate ==
    /\ \E ver \in Versions, sv \in SVArgs : encode_state_as_update(Subject, ver, sv)
    /\ UNCHANGED <<received, author, published, awvars>>

\* Spec and SpecHold register one callback on a channel and keep it; SpecObs
\* registers several and destroys them
MonitorUpdate ==
    /\ \E ch \in Channels :
          /\ TryTransactMut(Subject) => observers[Subject][ch] = 0
          /\ doc_monitor_update(Subject, ch)
    /\ UNCHANGED <<received, author, published, awvars>>

Next ==
    \/ BeginTransaction
    \/ BeginStore
    \/ CommitTransaction
    \/ LocalEdit
    \/ ApplyUpdate
    \/ EncodeStateVector
    \/ EncodeStateAsUpdate
    \/ MonitorUpdate

Spec == Init /\ [][Next]_vars

\* SpecConv: replicas that only receive updates, in any order and any number
\* of times, and export their state.  received[d] records the updates that
\* replica d has applied.
ConvPool == Pool(RemoteClients, MaxEdits)

ConvApply ==
    \E d \in Docs, ver \in Versions, b \in ConvPool :
        /\ apply_update(d, ver, b)
        /\ received' = IF DecodeUpdate(ver, b).ok
                       THEN [received EXCEPT ![d] = @ \cup {DecodeUpdate(ver, b).ops}]
                       ELSE received
        /\ UNCHANGED <<author, published, awvars>>

ConvEncode ==
    /\ \E d \in Docs, ver \in Versions : encode_state_as_update(d, ver, <<>>)
    /\ UNCHANGED <<received, author, published, awvars>>

NextConv == ConvApply \/ ConvEncode

SpecConv == Init /\ [][NextConv]_vars

\* SpecSync: two editing replicas doing the state-vector handshake; each call
\* is handed the binary the previous call returned.
SyncEdit == (\E d \in Docs : local_edit(d)) /\ UNCHANGED <<received, author, published, awvars>>

SyncStateVector ==
    /\ \E d \in Docs, ver \in Versions : encode_state_vector(d, ver)
    /\ UNCHANGED <<received, author, published, awvars>>

SyncDiff ==
    /\ \E d \in Docs, ver \in Versions, sv \in SVArgs : encode_state_as_update(d, ver, sv)
    /\ UNCHANGED <<received, author, published, awvars>>

SyncApply ==
    /\ \E d \in Docs, ver \in Versions :
          \E b \in HeldBytes(d) \cup {Garbage} : apply_update(d, ver, b)
    /\ UNCHANGED <<received, author, published, awvars>>

NextSync == SyncEdit \/ SyncStateVector \/ SyncDiff \/ SyncApply

SpecSync == Init /\ [][NextSync]_vars

\* SpecAw: an Awareness instance that publishes, removes and encodes, and a
\* peer that applies what it encoded, next to the first update of a client
\* that is neither.
Sender == 1

Receiver == 2

OutsiderPool == {AwBytes([c \in {Outsider} |-> [clock |-> 1, json |-> ToJson(MapOf(Number(5)))]]),
                 AwGarbage}

\* the binary the previous Awareness call returned, if any
AwReturned == {aw_ret.val.bytes[i] : i \in 1 .. Len(aw_ret.val.bytes)}

\* Vec<ClientID> arguments of remove_states on instance a: its own id, an id
\* it has never seen, and a batch of both
RemoveArgs(a) == {<<ClientId(a)>>, <<Outsider>>, <<Outsider, ClientId(a)>>}

\* Option<Vec<ClientID>> arguments of encode_update on instance a
EncodeArgs(a) == {<<>>, <<{ClientId(a)}>>, <<{Outsider}>>}

AwFrame == UNCHANGED <<docvars, received, author, published>>

AwSetLocalState ==
    /\ \E v \in AnyValues : awareness_set_local_state(Sender, v)
    /\ AwFrame

AwCleanLocalState == awareness_clean_local_state(Sender) /\ AwFrame

AwRemoveStates ==
    /\ \E clients \in RemoveArgs(Sender) : awareness_remove_states(Sender, clients)
    /\ AwFrame

AwEncodeUpdate ==
    /\ \E clients \in EncodeArgs(Sender) : awareness_encode_update_v1(Sender, clients)
    /\ AwFrame

AwApply ==
    /\ \E b \in AwReturned \cup OutsiderPool, origin \in OriginArgs :
          awareness_apply_update_v1(Receiver, b, origin)
    /\ AwFrame

AwMonitor ==
    /\ \E a \in Aws, ch \in AwChannels :
          /\ subs[a][ch] = <<>>
          /\ awareness_monitor(a, ch)
    /\ AwFrame

NextAw ==
    \/ AwSetLocalState
    \/ AwCleanLocalState
    \/ AwRemoveStates
    \/ AwEncodeUpdate
    \/ AwApply
    \/ AwMonitor

SpecAw == Init /\ [][NextAw]_vars

\* SpecSub: the subscriptions of one Awareness instance: monitored, cancelled
\* (once or again), destroyed with their handle, while the instance publishes, cleans and
\* removes states and learns of another client.
SubMonitor ==
    /\ \E ch \in AwChannels : awareness_monitor(Sender, ch)
    /\ AwFrame

SubCancel ==
    /\ \E ch \in AwChannels : \E i \in 1 .. Len(subs[Sender][ch]) : sub_unsubscribe(Sender, ch, i)
    /\ AwFrame

SubRelease ==
    /\ \E ch \in AwChannels : \E i \in 1 .. Len(subs[Sender][ch]) : handle_release(Sender, ch, i)
    /\ AwFrame

SubSetLocalState ==
    /\ \E v \in AnyValues : awareness_set_local_state(Sender, v)
    /\ AwFrame

SubCleanLocalState == awareness_clean_local_state(Sender) /\ AwFrame

SubRemoveStates ==
    /\ \E clients \in RemoveArgs(Sender) : awareness_remove_states(Sender, clients)
    /\ AwFrame

SubApply ==
    /\ \E b \in OutsiderPool, origin \in OriginArgs :
          awareness_apply_update_v1(Sender, b, origin)
    /\ AwFrame

NextSub ==
    \/ SubMonitor
    \/ SubCancel
    \/ SubRelease
    \/ SubSetLocalState
    \/ SubCleanLocalState
    \/ SubRemoveStates
    \/ SubApply

SpecSub == Init /\ [][NextSub]_vars

\* SpecRound: an instance publishes any value, encodes its own state, and a
\* peer applies the bytes and reads its states.  published records the value
\* that was handed to set_local_state.
RoundSetLocalState ==
    /\ \E v \in AllAnyValues :
          /\ awareness_set_local_state(Sender, v)
          /\ published' = <<v>>
    /\ UNCHANGED <<docvars, received, author>>

RoundEncodeUpdate ==
    /\ awareness_encode_update_v1(Sender, <<{ClientId(Sender)}>>)
    /\ AwFrame

RoundApply ==
    /\ \E b \in AwReturned : awareness_apply_update_v1(Receiver, b, <<>>)
    /\ AwFrame

RoundGetStates == awareness_get_states(Receiver) /\ AwFrame

NextRound ==
    \/ RoundSetLocalState
    \/ RoundEncodeUpdate
    \/ RoundApply
    \/ RoundGetStates

SpecRound == Init /\ [][NextRound]_vars

\* SpecHold: several holders of the same Document (the NifDoc and the shared
\* types handed out by get_or_insert_*) interleave their calls.  author
\* records which holder made each local edit.
Holders == {"h1", "h2"}

HoldEdit ==
    /\ local_edit(Subject)
    /\ \E h \in Holders :
          author' = IF blocks' # blocks
                    THEN Put(author, <<ClientId(Subject), StateVector(blocks[Subject])[ClientId(Subject)]>>, h)
                    ELSE author
    /\ UNCHANGED <<received, published, awvars>>

NextHold ==
    \/ BeginTransaction
    \/ BeginStore
    \/ CommitTransaction
    \/ HoldEdit
    \/ EncodeStateVector
    \/ MonitorUpdate

SpecHold == Init /\ [][NextHold]_vars

\* SpecObs: the update observers of one Document.  Any number of callbacks is
\* registered on either channel, the resources that own them are destroyed
\* at any time, and transactions of local edits commit in between.
ObsMonitor ==
    /\ \E ch \in Channels : doc_monitor_update(Subject, ch)
    /\ UNCHANGED <<received, author, published, awvars>>

SubscriptionRelease ==
    /\ \E ch \in Channels : subscription_release(Subject, ch)
    /\ UNCHANGED <<received, author, published, awvars>>

NextObs ==
    \/ BeginTransaction
    \/ BeginStore
    \/ CommitTransaction
    \/ LocalEdit
    \/ ObsMonitor
    \/ SubscriptionRelease

SpecObs == Init /\ [][NextObs]_vars

\* ---------------------------------------------------------------- claims
Own == ClientId(Subject)

Slot == current_transaction[Subject]

\* operations an observer message carries
EventOps(e) == DecodeUpdate(VersionOf(e.tag), e.update).ops

\* the messages a step adds to the mailbox of the Subject
NewEvents == SubSeq(mailbox'[Subject], Len(mailbox[Subject]) + 1, Len(mailbox'[Subject]))

\* a step neither removes nor rewrites messages already sent
MailboxGrows ==
    /\ Len(mailbox'[Subject]) >= Len(mailbox[Subject])
    /\ SubSeq(mailbox'[Subject], 1, Len(mailbox[Subject])) = mailbox[Subject]

\* the new messages of channel ch
NewOn(ch) == {i \in 1 .. Len(NewEvents) : NewEvents[i].tag = ch}

\* every callback registered on a channel sent exactly one new message, and
\* there are no other new messages
OneEventPerChannel ==
    /\ MailboxGrows
    /\ \A i \in 1 .. Len(NewEvents) : NewEvents[i].tag \in Channels
    /\ \A ch \in Channels : Cardinality(NewOn(ch)) = observers[Subject][ch]

\* C1: in every reachable state at most one mutable transaction is live on a
\* Document.
C1_AtMostOneTransaction == \A d \in Docs : live[d] <= 1

\* a second begin_transaction was attempted while a transaction was open
C1_Witness ==
    /\ Slot.open
    /\ live[Subject] = 1
    /\ ret.op = "begin_transaction"
    /\ ret.val.status = "panic"

\* C2: begin_transaction while a transaction is open fails loudly and changes
\* nothing: the open transaction keeps the slot, its origin and its pending
\* edits, no event is sent; a commit_transaction of an open slot commits the
\* transaction that is in the slot, with its origin and all its edits.
C2_BeginWhileOpenFails ==
    [][/\ \A o \in OriginArgs :
            (Slot.open /\ doc_begin_transaction(Subject, o))
               => /\ ret'.val.status = "panic"
                  /\ current_transaction' = current_transaction
                  /\ blocks' = blocks
                  /\ pending' = pending
                  /\ mailbox' = mailbox
                  /\ live' = live
                  /\ pc' = pc
       /\ (Slot.open /\ doc_commit_transaction(Subject))
               => /\ ~current_transaction'[Subject].open
                  /\ MailboxGrows
                  /\ \A i \in 1 .. Len(NewEvents) :
                        /\ NewEvents[i].origin = OriginOf(Slot)
                        /\ EventOps(NewEvents[i]) = DiffOps(blocks[Subject], Slot.before)
                  /\ (StateVector(blocks[Subject]) # Slot.before
                         => Len(NewEvents) = NumObservers(Subject))]_vars

\* the failed begin left a transaction with an origin and a pending edit
C2_Witness ==
    /\ Slot.open
    /\ Slot.origin # <<>>
    /\ StateVector(blocks[Subject]) # Slot.before
    /\ ret.op = "begin_transaction"
    /\ ret.val.status = "panic"
    /\ Registered(Subject) # {}
    /\ mailbox[Subject] = <<>>

\* C3: with_mutation reuses an open transaction (the slot stays open with the
\* same transaction, nothing is sent) and otherwise runs in an implicit
\* transaction committed before it returns (slot closed, no transaction left
\* alive, the update event of the edit sent on every registered channel).
C3_ReuseOrCreate ==
    [][local_edit(Subject)
          => LET op == <<Own, StateVector(blocks[Subject])[Own]>>
             IN /\ ret'.val.status = "ok"
                /\ blocks'[Subject] = blocks[Subject] \cup {op}
                /\ current_transaction' = current_transaction
                /\ live' = live
                /\ IF Slot.open
                   THEN mailbox' = mailbox
                   ELSE /\ live'[Subject] = 0
                        /\ OneEventPerChannel
                        /\ \A i \in 1 .. Len(NewEvents) : EventOps(NewEvents[i]) = {op}]_vars

\* the first edit ran in an implicit transaction and was sent, the second
\* joined an explicit transaction and was not
C3_Witness ==
    /\ ret.op = "edit"
    /\ Slot.open
    /\ Slot.before[Own] = 1
    /\ StateVector(blocks[Subject])[Own] = 2
    /\ Len(mailbox[Subject]) = 2
    /\ \A i \in 1 .. 2 : EventOps(mailbox[Subject][i]) = {<<Own, 0>>}

\* C4: begin_transaction, N >= 1 edits, commit_transaction sends exactly one
\* update event on each registered channel and that event covers the N edits:
\* nothing is sent by an edit made inside the transaction, and the commit
\* sends one message per callback registered on a channel, none else, whose
\* update holds every edit since begin.
C4_OneEventPerTransaction ==
    [][/\ (Slot.open /\ local_edit(Subject)) => mailbox' = mailbox
       /\ (/\ Slot.open
           /\ StateVector(blocks[Subject])[Own] > Slot.before[Own]
           /\ doc_commit_transaction(Subject))
             => /\ OneEventPerChannel
                /\ \A i \in 1 .. Len(NewEvents) :
                      RangeOps(Own, Slot.before[Own], StateVector(blocks[Subject])[Own])
                         \subseteq EventOps(NewEvents[i])]_vars

\* a transaction of two edits was committed with both channels registered
C4_Witness ==
    /\ ret.op = "commit_transaction"
    /\ Registered(Subject) = Channels
    /\ Len(mailbox[Subject]) = 2
    /\ mailbox[Subject][1].tag # mailbox[Subject][2].tag
    /\ \A i \in 1 .. 2 : EventOps(mailbox[Subject][i]) = {<<Own, 0>>, <<Own, 1>>}

\* C5: observers never see a partially applied transaction: while a
\* transaction stays open nothing is sent and it stays the same transaction;
\* the step that closes it sends its event, which holds everything applied
\* since its begin, and applies nothing more; and a transaction is only ever
\* created when none is open or alive, so after the previous one was sent.
C5_NoPartialTransaction ==
    [][/\ (Slot.open /\ current_transaction'[Subject].open)
             => /\ mailbox' = mailbox
                /\ current_transaction' = current_transaction
       /\ (Slot.open /\ ~current_transaction'[Subject].open)
             => /\ blocks' = blocks
                /\ pending' = pending
                /\ MailboxGrows
                /\ \A i \in 1 .. Len(NewEvents) :
                      EventOps(NewEvents[i]) = DiffOps(blocks'[Subject], Slot.before)
                /\ (StateVector(blocks[Subject]) # Slot.before
                       => Len(NewEvents) = NumObservers(Subject))
       /\ (~txn_local[Subject].open /\ txn_local'[Subject].open)
             => (~Slot.open /\ live[Subject] = 0)
       /\ (~Slot.open /\ current_transaction'[Subject].open)
             => (live[Subject] = 1 /\ live'[Subject] = 1 /\ mailbox' = mailbox)]_vars

\* a transaction holding a local edit and a remote update was committed and
\* sent as one event
C5_Witness ==
    /\ ret.op = "commit_transaction"
    /\ ~Slot.open
    /\ Len(mailbox[Subject]) = 1
    /\ EventOps(mailbox[Subject][1]) = {<<Own, 0>>} \cup RangeOps(CHOOSE c \in RemoteClients : TRUE, 0, 1)

C7_BadBytesRejected ==
    [][\A ver \in Versions, b \in RemotePool \cup HeldBytes(Subject) :
          (apply_update(Subject, ver, b) /\ (b.kind # "update" \/ b.fmt # ver))
             => /\ ret'.val.status = "error"
                /\ blocks' = blocks
                /\ pending' = pending
                /\ current_transaction' = current_transaction
                /\ live' = live
                /\ mailbox' = mailbox]_vars

Peer == CHOOSE c \in RemoteClients : TRUE

\* C8: replicas that have applied the same set of updates, in whatever order
\* and however many times each, export the same full state.
C8_Convergence ==
    \A a \in Docs, b \in Docs :
        received[a] = received[b]
           => \A ver \in Versions :
                 StateAsUpdateRet(blocks[a], ver, <<>>) = StateAsUpdateRet(blocks[b], ver, <<>>)

\* both replicas applied an update that could only wait for its predecessor
\* and the predecessor, and one exported its state
C8_Witness ==
    /\ received[1] = received[2]
    /\ received[1] = {RangeOps(Peer, 1, 2), RangeOps(Peer, 0, 1)}
    /\ blocks[1] = RangeOps(Peer, 0, 2)
    /\ pending[1] = {}
    /\ ret.op = "encode_state_as_update"
    /\ ret.val.status = "ok"

\* store of a replica (blocks Ba, pending Pa) after the handshake with a
\* replica holding Bb: its state vector is encoded, the other side encodes
\* its diff against it, and the diff is applied
Handshake(Ba, Pa, Bb, ver) ==
    LET upd == StateAsUpdateRet(Bb, ver, StateVectorRet(Ba, ver).bytes)
    IN IF upd.status = "ok" /\ DecodeUpdate(ver, upd.bytes[1]).ok
       THEN IntegrateUpdate(Ba, Pa, DecodeUpdate(ver, upd.bytes[1]).ops)
       ELSE [blocks |-> Ba, pending |-> Pa]

\* C9: encode_state_as_update returns exactly the operations the replica has
\* and the given state vector does not reflect, an absent state vector means
\* the empty one, and a peer that applies the diff computed against its own
\* state vector ends with a state vector pointwise >= the replica's.
C9_DiffCoversMissing ==
    \A a \in Docs, b \in Docs, ver \in Versions :
        LET upd == StateAsUpdateRet(blocks[b], ver, StateVectorRet(blocks[a], ver).bytes)
            full == StateAsUpdateRet(blocks[b], ver, <<>>)
        IN /\ upd.status = "ok"
           /\ DecodeUpdate(ver, upd.bytes[1]).ops = blocks[b] \ blocks[a]
           /\ full = StateAsUpdateRet(blocks[b], ver, <<SVBytes(ver, EmptySV)>>)
           /\ DecodeUpdate(ver, full.bytes[1]).ops = blocks[b]
           /\ SVGeq(StateVector(Handshake(blocks[a], pending[a], blocks[b], ver).blocks),
                    StateVector(blocks[b]))

\* replica 1, with edits of its own, applied the diff of replica 2
C9_Witness ==
    /\ ret.op = "apply_update"
    /\ ret.doc = 1
    /\ ret.val.status = "ok"
    /\ blocks[2] = RangeOps(ClientId(2), 0, MaxEdits)
    /\ blocks[1] = RangeOps(ClientId(1), 0, MaxEdits) \cup RangeOps(ClientId(2), 0, MaxEdits)

\* C10: two documents with disjoint client ids and local edits hold the same
\* operations after each has applied the other's diff computed against its
\* own state vector, whichever side applies first, or both at once.
C10_ExchangeConverges ==
    \A a \in Docs, b \in Docs, ver \in Versions :
        a # b =>
          LET a1 == Handshake(blocks[a], pending[a], blocks[b], ver)
              b1 == Handshake(blocks[b], pending[b], a1.blocks, ver)
              b2 == Handshake(blocks[b], pending[b], blocks[a], ver)
              a2 == Handshake(blocks[a], pending[a], b2.blocks, ver)
          IN /\ a1.blocks = b1.blocks
             /\ a2.blocks = b2.blocks
             /\ a1.blocks = a2.blocks
             /\ a1.blocks = blocks[a] \cup blocks[b]

\* both documents made all their edits and hold each other's after a real
\* exchange, the second direction applied last by document 2
C10_Witness ==
    /\ ret.op = "apply_update"
    /\ ret.doc = 2
    /\ ret.val.status = "ok"
    /\ blocks[1] = blocks[2]
    /\ blocks[1] = RangeOps(ClientId(1), 0, MaxEdits) \cup RangeOps(ClientId(2), 0, MaxEdits)

\* ------------------------------------------------------ awareness claims
SenderId == ClientId(Sender)

\* the update the Sender encodes now for all clients, and for its own id
AllClientsBytes == EncodeUpdate(aw_states[Sender], aw_meta[Sender], <<>>).bytes

OwnClientBytes == EncodeUpdate(aw_states[Sender], aw_meta[Sender], <<{SenderId}>>).bytes

\* every subscription registered on instance a received, in this step, exactly
\* one message, and its summary satisfies P
HeardBy(a, P(_)) ==
    \A ch \in AwChannels : \A i \in aw_observers[a][ch] :
        /\ Len(aw_sent'[a][ch][i]) = 1
        /\ P(aw_sent'[a][ch][i][1].summary)

\* the Receiver applies, in this step, the update <<b>> the Sender just encoded
AppliesEncoded(bytes) ==
    /\ aw_ret.op = "encode_update"
    /\ bytes # <<>>
    /\ aw_ret.val.bytes = bytes
    /\ \E o \in OriginArgs : awareness_apply_update_v1(Receiver, bytes[1], o)

\* the Receiver holds a state of the Sender that is not the Sender's present one
ReceiverBehind ==
    /\ SenderId \in DOMAIN aw_states[Receiver]
    /\ SenderId \in DOMAIN aw_states[Sender]
    /\ aw_states[Receiver][SenderId] # aw_states[Sender][SenderId]

\* the Sender has removed its state and the Receiver still holds one
ReceiverHoldsRemoved ==
    /\ SenderId \in DOMAIN aw_states[Receiver]
    /\ aw_states[Receiver][SenderId] # NULL_STR
    /\ SenderId \in DOMAIN aw_meta[Sender]
    /\ SenderId \notin DOMAIN aw_states[Sender]

\* a removed client comes back only through a newer publication
AbsentUntilNewer ==
    (/\ SenderId \in DOMAIN aw_meta[Receiver]
     /\ SenderId \notin DOMAIN aw_states[Receiver]
     /\ SenderId \in DOMAIN aw_states'[Receiver])
        => aw_meta'[Receiver][SenderId] > aw_meta[Receiver][SenderId]

\* C11 as stated: a fresh B that applies A's update for all clients after A's
\* first set_local_state reports A in added; after A sets a different state
\* and re-encodes, B reports A in updated and nothing in added; after A calls
\* remove_states([A]) and encodes, B reports A in removed and no longer knows A.
C11_LifecycleAllClients ==
    [][/\ (/\ AppliesEncoded(AllClientsBytes)
           /\ SenderId \in DOMAIN aw_states[Sender]
           /\ SenderId \notin DOMAIN aw_meta[Receiver])
             => HeardBy(Receiver, LAMBDA m : SenderId \in m.added)
       /\ (AppliesEncoded(AllClientsBytes) /\ ReceiverBehind)
             => HeardBy(Receiver, LAMBDA m : SenderId \in m.updated /\ m.added = {})
       /\ (AppliesEncoded(AllClientsBytes) /\ ReceiverHoldsRemoved)
             => /\ HeardBy(Receiver, LAMBDA m : SenderId \in m.removed)
                /\ SenderId \notin DOMAIN aw_states'[Receiver]
       /\ AbsentUntilNewer]_vars

\* C11, amended: as above, with the different state being a state other than
\* JSON null, and the update after remove_states([A]) encoded for the client
\* list [A]; once removed, A stays absent from B's states until B applies a
\* newer publication of A.
C11_Lifecycle ==
    [][/\ (/\ AppliesEncoded(AllClientsBytes)
           /\ SenderId \in DOMAIN aw_states[Sender]
           /\ SenderId \notin DOMAIN aw_meta[Receiver])
             => /\ HeardBy(Receiver, LAMBDA m : SenderId \in m.added)
                /\ SenderId \in DOMAIN aw_states'[Receiver]
       /\ (/\ AppliesEncoded(AllClientsBytes)
           /\ ReceiverBehind
           /\ aw_states[Sender][SenderId] # NULL_STR)
             => /\ HeardBy(Receiver, LAMBDA m : SenderId \in m.updated /\ m.added = {})
                /\ aw_states'[Receiver][SenderId] = aw_states[Sender][SenderId]
       /\ (AppliesEncoded(OwnClientBytes) /\ ReceiverHoldsRemoved)
             => /\ HeardBy(Receiver, LAMBDA m : SenderId \in m.removed)
                /\ SenderId \notin DOMAIN aw_states'[Receiver]
       /\ AbsentUntilNewer]_vars

\* B, subscribed on both channels, heard the removal of A after having heard
\* A's second state
C11_Witness ==
    /\ aw_ret.op = "apply_update"
    /\ aw_ret.aw = Receiver
    /\ SenderId \in DOMAIN aw_meta[Receiver]
    /\ aw_meta[Sender][SenderId] = 3
    /\ aw_meta[Receiver][SenderId] = 3
    /\ SenderId \notin DOMAIN aw_states[Receiver]
    /\ \A ch \in AwChannels :
          /\ aw_observers[Receiver][ch] = {1}
          /\ Len(aw_sent[Receiver][ch][1]) = 1
          /\ aw_sent[Receiver][ch][1][1].summary = Summary({}, {}, {SenderId})

\* a Receiver that knows no client applies the bytes b, which the Sender
\* encoded for its own id right after its set_local_state
FreshRoundTrip(b) ==
    /\ published # <<>>
    /\ aw_ret.op = "encode_update"
    /\ aw_ret.aw = Sender
    /\ DOMAIN aw_meta[Receiver] = {}
    /\ awareness_apply_update_v1(Receiver, b, <<>>)

\* C12: for every value v, set_local_state(v), encode_update([own id]) and
\* apply_update on a fresh instance leave that instance holding exactly v for
\* the Sender's id, and nothing else: get_states of the fresh instance gives
\* the value that was handed to set_local_state.
C12_RoundTripExact ==
    [][\A b \in AwReturned :
          FreshRoundTrip(b)
             => GetStates(aw_states'[Receiver]) = (SenderId :> published[1])]_vars

\* the ids of a Vec<ClientID>
Ids(clients) == {clients[i] : i \in 1 .. Len(clients)}

\* the summaries of the messages subscription i of channel ch of instance a
\* received in this step
HeardSummaries(a, ch, i) ==
    {aw_sent'[a][ch][i][k].summary : k \in 1 .. Len(aw_sent'[a][ch][i])}

\* C13: remove_states never fails; ids without a state are skipped: the state
\* map loses exactly the known ids of the batch, the observers hear one
\* removal per known id and none for the others; and an id that was never
\* added (here the Outsider, which the Sender never learns of) appears in no
\* removed list, neither of the Sender's observers nor of a peer that applies
\* an update the Sender encodes later.
C13_UnknownRemovalNoOp ==
    [][/\ \A clients \in RemoveArgs(Sender) :
            awareness_remove_states(Sender, clients)
               => /\ aw_ret'.val.status = "ok"
                  /\ aw_states'[Sender] =
                        [c \in DOMAIN aw_states[Sender] \ Ids(clients) |-> aw_states[Sender][c]]
                  /\ \A ch \in AwChannels : \A i \in aw_observers[Sender][ch] :
                        /\ HeardSummaries(Sender, ch, i) =
                              {Summary({}, {}, {c}) : c \in Ids(clients) \cap DOMAIN aw_states[Sender]}
                        /\ Len(aw_sent'[Sender][ch][i]) =
                              Cardinality(Ids(clients) \cap DOMAIN aw_states[Sender])
       /\ \A a \in Aws, ch \in AwChannels : \A i \in 1 .. Len(aw_sent'[a][ch]) :
            \A m \in HeardSummaries(a, ch, i) : Outsider \notin m.removed]_vars

\* the step changes the set or the content of the states instance a knows
StatesChange(a) == aw_states'[a] # aw_states[a]

\* C14: on each instance, every operation that changes the known states, and
\* every set_local_state, is heard on the "update" channel; the "change"
\* channel is heard exactly when the operation changes the set or the content
\* of the known states; a client whose state is observed again with the same
\* value is not reported as updated on the "change" channel; and either
\* channel works whether or not the other is subscribed.
C14_ObserverChannels ==
    [][\A a \in Aws :
         /\ \A i \in aw_observers[a]["awareness_update"] :
               /\ StatesChange(a) => Len(aw_sent'[a]["awareness_update"][i]) >= 1
               /\ (\E v \in AnyValues : awareness_set_local_state(a, v))
                     => Len(aw_sent'[a]["awareness_update"][i]) = 1
         /\ \A i \in aw_observers[a]["awareness_change"] :
               /\ Len(aw_sent'[a]["awareness_change"][i]) >= 1 <=> StatesChange(a)
               /\ \A m \in HeardSummaries(a, "awareness_change", i) :
                     \A c \in m.updated :
                        ~(/\ c \in DOMAIN aw_states[a]
                          /\ aw_states'[a][c] = aw_states[a][c])]_vars

\* the step is a set_local_state or a clean_local_state of the Sender
Publishes ==
    \/ \E v \in AnyValues : awareness_set_local_state(Sender, v)
    \/ awareness_clean_local_state(Sender)

\* what a subscription on channel ch of the Sender is due in such a step: the
\* update channel hears every publication and every removal of a state that
\* was there, the change channel only a state that is new, different or gone
DueOn(ch) ==
    LET had == SenderId \in DOMAIN aw_states[Sender]
        has == SenderId \in DOMAIN aw_states'[Sender]
        same == had /\ has /\ aw_states'[Sender][SenderId] = aw_states[Sender][SenderId]
        msg(added, updated, removed) ==
            <<[tag |-> ch, summary |-> Summary(added, updated, removed), origin |-> <<>>]>>
    IN IF ~has
       THEN IF had THEN msg({}, {}, {SenderId}) ELSE <<>>
       ELSE IF ~had THEN msg({SenderId}, {}, {})
       ELSE IF same /\ ch = "awareness_change" THEN <<>>
       ELSE msg({}, {SenderId}, {})

\* C15: a subscription receives every event of its channel from the monitor
\* call until it is cancelled, and none afterwards; cancelling it again
\* changes nothing; and a subscription whose handle was dropped without a
\* cancel keeps receiving every event of its channel.
C15_SubscriptionLifecycle ==
    [][\A ch \in AwChannels : \A i \in 1 .. Len(subs[Sender][ch]) :
         LET sub == subs[Sender][ch][i]
         IN /\ Publishes => aw_sent'[Sender][ch][i] = IF sub.slot THEN DueOn(ch) ELSE <<>>
            /\ (sub.slot /\ ~sub_unsubscribe(Sender, ch, i)) => subs'[Sender][ch][i].slot
            /\ ~sub.slot => ~subs'[Sender][ch][i].slot
            /\ (~sub.slot /\ sub_unsubscribe(Sender, ch, i))
                  => /\ subs' = subs
                     /\ aw_observers' = aw_observers
                     /\ aw_states' = aw_states
                     /\ aw_meta' = aw_meta]_vars

\* what either way of removing the own state must leave: the own state gone,
\* every other state as it was, the removal counted in the own clock, and the
\* removal of the own id sent to every registered callback of both channels
\* if there was a state, nothing otherwise
OwnStateRemoved ==
    LET S == aw_states[Sender]
        M == aw_meta[Sender]
        had == SenderId \in DOMAIN S
    IN /\ aw_ret'.val.status = "ok"
       /\ DOMAIN aw_states'[Sender] = DOMAIN S \ {SenderId}
       /\ \A c \in DOMAIN S \ {SenderId} : aw_states'[Sender][c] = S[c]
       /\ DOMAIN aw_meta'[Sender] = DOMAIN M \cup {SenderId}
       /\ \A c \in DOMAIN M \ {SenderId} : aw_meta'[Sender][c] = M[c]
       /\ aw_meta'[Sender][SenderId] = IF SenderId \in DOMAIN M THEN M[SenderId] + 1 ELSE 1
       /\ \A ch \in AwChannels : \A i \in 1 .. Len(subs[Sender][ch]) :
             aw_sent'[Sender][ch][i] =
                IF had /\ i \in aw_observers[Sender][ch]
                THEN <<[tag |-> ch, summary |-> Summary({}, {}, {SenderId}), origin |-> <<>>]>>
                ELSE <<>>

\* C17: clean_local_state and remove_states([own id]) are the same operation:
\* from every state either call leaves the same state map, with the own state
\* absent and the state of every other client as before, the same clocks and
\* the same messages to the observers.
C17_CleanIsRemoveSelf ==
    [][/\ awareness_clean_local_state(Sender) => OwnStateRemoved
       /\ awareness_remove_states(Sender, <<SenderId>>) => OwnStateRemoved]_vars

\* clean_local_state removed the own state of an instance that also knows
\* another client; the observer heard the removal of the own id only
C17_Witness ==
    /\ aw_ret.op = "clean_local_state"
    /\ DOMAIN aw_states[Sender] = {Outsider}
    /\ aw_observers[Sender]["awareness_update"] = {1}
    /\ Len(aw_sent[Sender]["awareness_update"][1]) = 1
    /\ aw_sent[Sender]["awareness_update"][1][1].summary = Summary({}, {}, {SenderId})

\* --------------------------------------------- document claims, continued
\* a step that leaves the Document, its slot and its observers' mailbox alone
DocUntouched ==
    /\ blocks' = blocks
    /\ pending' = pending
    /\ current_transaction' = current_transaction
    /\ live' = live
    /\ observers' = observers
    /\ mailbox' = mailbox

\* C16: encode_state_vector and encode_state_as_update, which run through
\* readonly, never hit the failure of a second transaction, change nothing
\* (operations, pending operations, slot, observers, mailbox), and read the
\* working state: with a transaction open the result covers the edits made in
\* it and not yet committed.
C16_ReadHasNoEffect ==
    [][/\ \A ver \in Versions :
            encode_state_vector(Subject, ver)
               => /\ DocUntouched
                  /\ ret'.val = RetBytes(SVBytes(ver, StateVector(blocks[Subject])))
                  /\ SVGeq(DecodeSV(ver, ret'.val.bytes[1]).sv, Slot.before)
       /\ \A ver \in Versions, sv \in SVArgs :
            encode_state_as_update(Subject, ver, sv)
               => /\ DocUntouched
                  /\ ret'.val.status # "panic"
                  /\ sv = <<>> => /\ ret'.val.status = "ok"
                                  /\ DecodeUpdate(ver, ret'.val.bytes[1]).ops = blocks[Subject]]_vars

\* the state vector was read inside an open transaction that holds an edit
\* not yet committed: it counts the edit, and nothing was sent
C16_Witness ==
    /\ ret.op = "encode_state_vector"
    /\ ret.val.status = "ok"
    /\ Slot.open
    /\ Registered(Subject) # {}
    /\ mailbox[Subject] = <<>>
    /\ Slot.before[Own] = 0
    /\ ret.val.bytes[1].sv[Own] = 1

\* the edits made since the transaction in the slot began
InFlight == DiffOps(blocks[Subject], Slot.before)

\* C18: whichever holder makes an edit while a transaction is open, the edit
\* joins that transaction and nothing is sent; the commit sends, on every
\* registered channel, one event that holds the edits of all holders since
\* begin and carries the transaction's origin; no edit is ever sent again by
\* a later step, and a step sends an event twice on a channel only to two
\* callbacks of that channel; and a read by any holder returns the one
\* working state, with the edits of every holder in it.
C18_HoldersShareTransaction ==
    [][/\ (Slot.open /\ HoldEdit)
             => /\ mailbox' = mailbox
                /\ current_transaction' = current_transaction
                /\ DOMAIN author' \subseteq blocks'[Subject]
       /\ (Slot.open /\ InFlight # {} /\ doc_commit_transaction(Subject))
             => /\ OneEventPerChannel
                /\ \A i \in 1 .. Len(NewEvents) :
                      /\ EventOps(NewEvents[i]) = InFlight
                      /\ NewEvents[i].origin = OriginOf(Slot)
       /\ MailboxGrows
       /\ \A i \in 1 .. Len(NewEvents), j \in 1 .. Len(mailbox[Subject]) :
             EventOps(NewEvents[i]) \cap EventOps(mailbox[Subject][j]) = {}
       /\ \A i \in 1 .. Len(NewEvents), j \in 1 .. Len(NewEvents) :
             (i # j /\ NewEvents[i].tag = NewEvents[j].tag) => observers[Subject][NewEvents[i].tag] > 1
       /\ (\E ver \in Versions : encode_state_vector(Subject, ver))
             => /\ ret'.val.status = "ok"
                /\ ret'.val.bytes[1].sv[Own] = Cardinality(DOMAIN author)]_vars

\* one transaction with an origin took an edit of each holder and was sent as
\* one event
C18_Witness ==
    /\ ret.op = "commit_transaction"
    /\ ~Slot.open
    /\ DOMAIN author = {<<Own, 0>>, <<Own, 1>>}
    /\ author[<<Own, 0>>] # author[<<Own, 1>>]
    /\ Len(mailbox[Subject]) = 1
    /\ EventOps(mailbox[Subject][1]) = {<<Own, 0>>, <<Own, 1>>}
    /\ mailbox[Subject][1].origin = <<"peer">>

\* C19: an apply_update that finds a transaction open joins it: the slot keeps
\* the same transaction and nothing is sent, and the commit of that
\* transaction sends what was applied with the origin given to begin; an
\* apply_update that finds no transaction open has committed before it
\* returns: no transaction is left, and the event of what it integrated is
\* sent on every registered channel without an origin.
C19_ApplyJoinsOrCommits ==
    [][/\ \A ver \in Versions, b \in RemotePool \cup HeldBytes(Subject) :
            (apply_update(Subject, ver, b) /\ ret'.val.status = "ok")
               => LET store == IntegrateUpdate(blocks[Subject], pending[Subject],
                                               DecodeUpdate(ver, b).ops)
                  IN /\ blocks'[Subject] = store.blocks
                     /\ pending'[Subject] = store.pending
                     /\ current_transaction' = current_transaction
                     /\ live' = live
                     /\ IF Slot.open
                        THEN /\ mailbox' = mailbox
                             /\ store.blocks \ blocks[Subject]
                                   \subseteq DiffOps(blocks'[Subject], Slot.before)
                        ELSE /\ live'[Subject] = 0
                             /\ MailboxGrows
                             /\ (store.blocks # blocks[Subject] => OneEventPerChannel)
                             /\ \A i \in 1 .. Len(NewEvents) :
                                   /\ NewEvents[i].origin = <<>>
                                   /\ EventOps(NewEvents[i]) = store.blocks \ blocks[Subject]
       /\ (Slot.open /\ doc_commit_transaction(Subject))
               => /\ MailboxGrows
                  /\ (DiffOps(blocks[Subject], Slot.before) # {} => OneEventPerChannel)
                  /\ \A i \in 1 .. Len(NewEvents) :
                        /\ NewEvents[i].origin = OriginOf(Slot)
                        /\ EventOps(NewEvents[i]) = DiffOps(blocks[Subject], Slot.before)]_vars

\* a remote update applied inside a transaction begun with an origin was sent
\* by the commit, as the only event, tagged with that origin
C19_Witness ==
    /\ ret.op = "commit_transaction"
    /\ ~Slot.open
    /\ blocks[Subject] = RangeOps(CHOOSE c \in RemoteClients : TRUE, 0, 1)
    /\ Len(mailbox[Subject]) = 1
    /\ EventOps(mailbox[Subject][1]) = blocks[Subject]
    /\ mailbox[Subject][1].origin = <<"peer">>

\* C20: commit_transaction with nothing in the slot returns ok and changes
\* nothing: slot closed, store as it was, nothing sent; commit_transaction of
\* an open transaction leaves the slot closed and no transaction alive; hence
\* a commit_transaction that follows a commit_transaction sends nothing.
C20_CommitWhenClosedIsNoOp ==
    [][/\ (~Slot.open /\ doc_commit_transaction(Subject))
             => /\ ret'.val.status = "ok"
                /\ ~current_transaction'[Subject].open
                /\ blocks' = blocks
                /\ pending' = pending
                /\ mailbox' = mailbox
                /\ live' = live
                /\ observers' = observers
       /\ (Slot.open /\ doc_commit_transaction(Subject))
             => /\ ret'.val.status = "ok"
                /\ ~current_transaction'[Subject].open
                /\ live'[Subject] = 0
       /\ (ret.op = "commit_transaction" /\ doc_commit_transaction(Subject))
             => mailbox' = mailbox]_vars

\* commit_transaction returned ok on a Document that has an edit and both
\* observers registered, and nothing was ever sent
C20_Witness ==
    /\ ret.op = "commit_transaction"
    /\ ret.val.status = "ok"
    /\ ~Slot.open
    /\ blocks[Subject] = {<<Own, 0>>}
    /\ Registered(Subject) = Channels
    /\ mailbox[Subject] = <<>>

\* a NIF call on the Subject is not in progress
AtCallBoundary == pc[Subject] = "idle"

\* C21: between calls a transaction holds the store of the Document exactly
\* when the slot is open; and a call made while the slot is closed never
\* fails on try_transact_mut().unwrap(): begin_transaction and an edit
\* return ok, the reads return what they encode, apply_update returns ok or
\* the decoding error, whatever calls came before.
C21_LockIffOpen ==
    /\ [](AtCallBoundary => (live[Subject] = 1 <=> Slot.open))
    /\ [](AtCallBoundary => (live[Subject] = 0 <=> ~Slot.open))
    /\ [][(AtCallBoundary /\ ~Slot.open)
             => /\ ret'.val.status # "panic"
                /\ \A o \in OriginArgs :
                      doc_begin_transaction(Subject, o)
                         => (ret'.val.status = "ok" /\ live'[Subject] = 1)
                /\ local_edit(Subject) => (ret'.val.status = "ok" /\ live'[Subject] = 0)
                /\ \A ver \in Versions :
                      encode_state_vector(Subject, ver)
                         => (ret'.val.status = "ok" /\ live'[Subject] = 0)
                /\ \A ver \in Versions, sv \in SVArgs :
                      encode_state_as_update(Subject, ver, sv)
                         => (ret'.val.status \in {"ok", "error"} /\ live'[Subject] = 0)
                /\ \A ver \in Versions, b \in RemotePool \cup HeldBytes(Subject) :
                      apply_update(Subject, ver, b)
                         => (ret'.val.status \in {"ok", "error"} /\ live'[Subject] = 0)]_vars

\* after a transaction with an origin was committed and sent, a later
\* begin_transaction found the slot closed, took the store again and filled
\* the slot
C21_Witness ==
    /\ AtCallBoundary
    /\ ret.op = "begin_transaction"
    /\ ret.val.status = "ok"
    /\ Slot.open
    /\ live[Subject] = 1
    /\ Slot.before = StateVector(blocks[Subject])
    /\ blocks[Subject] # {}
    /\ Len(mailbox[Subject]) = 1
    /\ mailbox[Subject][1].origin = <<"peer">>

====
